---- MODULE Spec2Model ----
(***************************************************************************)
(* WG-Gesucht scraper backend: the per-account poll cycle                  *)
(* (run_scraper_for_account), its session check (ensure_valid_session),    *)
(* the scheduled batch loop (scraper_queue_thread) and the manual trigger  *)
(* endpoint (trigger_scrape), over the shared account store.               *)
(*                                                                         *)
(* Time is counted in whole minutes.  The remote marketplace and the       *)
(* account store are the environment: every remote call answers 2xx        *)
(* ("ok"), non-2xx ("fail") or does not answer at all ("raise", the        *)
(* transport exception of the HTTP library); a login may also answer with  *)
(* a two-factor challenge ("mfa").  An update of the store succeeds; the    *)
(* two updates that run_scraper_for_account guards with a handler of       *)
(* their own (the listing update and the counter update) may also raise.   *)
(***************************************************************************)
EXTENDS Integers, Sequences, FiniteSets, TLC

\* ------------------------------------------------------------- bounds
\* The clock is read at multiples of the polling interval and stops after
\* MaxTicks of them.
MaxTicks == 1
\* At most MaxIssued token sets are handed out by the remote service (the
\* frontend's included).
MaxIssued == 2
\* At most MaxCycles pipelines are started for an account.
MaxCycles == 2

\* ------------------------------------------------- program constants
MAX_CONCURRENT_SCRAPERS == 10
\* the length that accounts_processed is cut back to after a batch
HISTORY_LIMIT == 100
SCRAPER_INTERVAL == 5
QUEUE_CHECK_INTERVAL == 2
REFRESH_AFTER_MINUTES == 40
HOURS_PER_DAY == 24

\* Python's None.
Null == <<>>
\* datetime.isoformat of minute t is modelled as <<t>>; BadTime is a stored
\* timestamp text that datetime.fromisoformat rejects.
isoformat(t) == <<t>>
BadTime == <<0, 0>>
IsIsoTime(s) == s # Null /\ Len(s) = 1
fromisoformat(s) == s[1]

\* One pool per dispatcher: the scheduled loop's and the manual trigger's.
Batches == {"sched", "manual"}

\* --------------------------------------------------- listings (remote)
\* A date text is modelled as <<day, hour>>; it has the format
\* "DD.MM.YYYY, HH:MM:SS" when day and hour are in range.
\* The offers of the marketplace: offer 1 at day 1, 23h; offer 2 one hour
\* later; offer 3 with a date text that is not in the format (hour 24).
OfferIds == {1, 2, 3}
DateOf(id) ==
    IF id = 1 THEN <<1, 23>>
    ELSE IF id = 2 THEN <<2, 0>>
    ELSE <<2, 24>>
Offer(id) == [offer_id |-> id, date_of_entry_details |-> DateOf(id)]
AllOffers == {Offer(id) : id \in OfferIds}

WellFormedDate(s) ==
    /\ s # Null
    /\ s[1] \in 1..31
    /\ s[2] \in 0..(HOURS_PER_DAY - 1)

\* a parser that takes every date text with day and hour
parse_date_lenient(date_str) ==
    IF date_str # Null
    THEN <<date_str[1] * HOURS_PER_DAY + date_str[2]>>
    ELSE Null

\* datetime.strptime(date_str, "%d.%m.%Y, %H:%M:%S"), in hours; Null when it raises
parse_date(date_str) ==
    IF WellFormedDate(date_str)
    THEN <<date_str[1] * HOURS_PER_DAY + date_str[2]>>
    ELSE Null

strftime(t) == <<t \div HOURS_PER_DAY, t % HOURS_PER_DAY>>

SetMax(S) == CHOOSE x \in S : \A y \in S : y <= x

\* max([t for t in all_times if t], default=None)
latest_time_in_fetch(offers) ==
    LET all_times == {parse_date(o.date_of_entry_details) :
                        o \in {f \in offers : f.date_of_entry_details # Null}}
        parsed == {t[1] : t \in all_times \ {Null}}
    IN IF parsed = {} THEN Null ELSE <<SetMax(parsed)>>

\* a filter that also keeps the offers as old as last_latest
new_offers_of_inclusive(offers, last_latest_time) ==
    {o \in offers :
        /\ parse_date(o.date_of_entry_details) # Null
        /\ parse_date(o.date_of_entry_details)[1] >= last_latest_time[1]}

\* a filter that keeps every offer with a date in the format
new_offers_of_unfiltered(offers, last_latest_time) ==
    {o \in offers : parse_date(o.date_of_entry_details) # Null}

\* the loop that keeps the offers newer than last_latest
new_offers_of(offers, last_latest_time) ==
    {o \in offers :
        /\ parse_date(o.date_of_entry_details) # Null
        /\ parse_date(o.date_of_entry_details)[1] > last_latest_time[1]}

\* the time of the oldest of the new offers
oldest_time(new_offers) ==
    LET times == {parse_date(o.date_of_entry_details)[1] : o \in new_offers}
    IN CHOOSE x \in times : \A y \in times : x <= y

\* max(parse_date(o['date_of_entry_details']) for o in new_offers)
newest_time(new_offers) ==
    SetMax({parse_date(o.date_of_entry_details)[1] : o \in new_offers})

\* a first cycle that stores what it fetched as new
first_run_listing_data_emitting(offers) ==
    LET latest == latest_time_in_fetch(offers)
    IN [last_latest |-> IF latest = Null THEN Null ELSE strftime(latest[1]),
        offers |-> offers]

\* listing_data written by the first cycle of an account
first_run_listing_data(offers) ==
    LET latest == latest_time_in_fetch(offers)
    IN [last_latest |-> IF latest = Null THEN Null ELSE strftime(latest[1]),
        offers |-> {}]

\* an update that moves the watermark and drops the listing set
updated_listing_data_unlisted(new_offers) ==
    [last_latest |-> strftime(newest_time(new_offers)), offers |-> {}]

\* an update that lists only the latest of the new offers
updated_listing_data_latest_only(new_offers) ==
    [last_latest |-> strftime(newest_time(new_offers)),
     offers |-> {o \in new_offers :
                   parse_date(o.date_of_entry_details)[1] = newest_time(new_offers)}]

\* listing_data written by a cycle that found new offers
updated_listing_data(new_offers) ==
    [last_latest |-> strftime(newest_time(new_offers)), offers |-> new_offers]

\* A message text is modelled as <<text>>.  str.strip() leaves nothing of a
\* text of blanks.
strip(text) == IF text[1] \in {"", " ", "  "} THEN <<"">> ELSE text

\* not contact_message or not contact_message.strip()
message_is_empty(contact_message) ==
    \/ contact_message = Null
    \/ contact_message = <<"">>
    \/ strip(contact_message) = <<"">>

\* ------------------------------------------------ WgGesuchtClient
\* A missing user id or token is 0 (falsy); the remote service hands out
\* token sets 1, 2, ...
NoToken == 0

\* WgGesuchtClient.__init__
new_client == [userId |-> NoToken, accessToken |-> NoToken,
               refreshToken |-> NoToken, devRefNo |-> NoToken]

set_session_from_dict(client, session_data) ==
    [userId |-> session_data.userId,
     accessToken |-> session_data.accessToken,
     refreshToken |-> session_data.refreshToken,
     devRefNo |-> session_data.devRefNo]

get_session_dict(client, t) ==
    [userId |-> client.userId,
     accessToken |-> client.accessToken,
     refreshToken |-> client.refreshToken,
     devRefNo |-> client.devRefNo,
     session_created_at |-> isoformat(t)]

\* What the remote service can answer.
Answers == {"ok", "fail", "raise"}
LoginAnswers == Answers \cup {"mfa"}

\* login: "True", "False", "MFA_REQUIRED", or "raise" when the transport raises.
\* The tokens are assigned only from a normal login response.
login(client, uid, answer, tok) ==
    LET call == <<<<"login", answer>>>>
    IN IF answer = "raise" THEN [ret |-> "raise", client |-> client, call |-> call]
       ELSE IF answer = "fail" THEN [ret |-> "False", client |-> client, call |-> call]
       ELSE IF answer = "mfa" THEN [ret |-> "MFA_REQUIRED", client |-> client, call |-> call]
       ELSE [ret |-> "True",
             client |-> [userId |-> uid, accessToken |-> tok,
                         refreshToken |-> tok, devRefNo |-> tok],
             call |-> call]

\* a refresh that takes only the access token of the response
refresh_session_access_only(client, answer, tok) ==
    LET call == <<<<"refresh", answer>>>>
    IN IF client.userId = NoToken \/ client.refreshToken = NoToken
          \/ client.devRefNo = NoToken
       THEN [ret |-> "False", client |-> client, call |-> <<>>]
       ELSE IF answer = "raise" THEN [ret |-> "raise", client |-> client, call |-> call]
       ELSE IF answer = "fail" THEN [ret |-> "False", client |-> client, call |-> call]
       ELSE [ret |-> "True", client |-> [client EXCEPT !.accessToken = tok], call |-> call]

\* refresh_session: no request is made when session data is missing.
refresh_session(client, answer, tok) ==
    LET call == <<<<"refresh", answer>>>>
    IN IF client.userId = NoToken \/ client.refreshToken = NoToken
          \/ client.devRefNo = NoToken
       THEN [ret |-> "False", client |-> client, call |-> <<>>]
       ELSE IF answer = "raise" THEN [ret |-> "raise", client |-> client, call |-> call]
       ELSE IF answer = "fail" THEN [ret |-> "False", client |-> client, call |-> call]
       ELSE [ret |-> "True",
             client |-> [client EXCEPT !.accessToken = tok,
                                       !.refreshToken = tok,
                                       !.devRefNo = tok],
             call |-> call]

\* my_profile: the profile JSON ("True"), None ("False"), or "raise".
my_profile(client, answer) ==
    LET call == <<<<"profile", answer>>>>
    IN IF client.userId = NoToken THEN [ret |-> "False", call |-> <<>>]
       ELSE IF answer = "raise" THEN [ret |-> "raise", call |-> call]
       ELSE IF answer = "fail" THEN [ret |-> "False", call |-> call]
       ELSE [ret |-> "True", call |-> call]

\* ------------------------------------------------ ensure_valid_session
\* The result of one session check: what it returns ("True", "False", or
\* "raise" when an exception leaves the function), the client and the account
\* dictionary afterwards, the store update it made (Null when none), the path
\* it took and the remote calls it made.  The remote answers are not known in
\* advance, so a check has a set of possible results.
Checked(ret, client, account, session_write, config_write, path, calls) ==
    [ret |-> ret, client |-> client, account |-> account,
     session_write |-> session_write, config_write |-> config_write,
     path |-> path, calls |-> calls]

\* session age above the threshold: the proactive-refresh path is taken
session_is_old(session_details, t) ==
    /\ IsIsoTime(session_details.session_created_at)
    /\ t - fromisoformat(session_details.session_created_at) > REFRESH_AFTER_MINUTES

\* a configuration that is written back as it was read
disabled_configuration_kept(config) == config

\* the configuration written when the re-login asks for a second factor
disabled_configuration(config) == [config EXCEPT !.scrape_enabled = FALSE]

\* lines 382-405: the result of the full re-login of the validation path
after_relogin(l, client, account, t, path, calls) ==
    IF l.ret = "raise" THEN Checked("raise", client, account, Null, Null, path, calls)
    ELSE IF l.ret = "MFA_REQUIRED"
    THEN LET config == disabled_configuration(account.configuration)
         IN Checked("False", client, [account EXCEPT !.configuration = config],
                    Null, config, path, calls)
    ELSE IF l.ret = "False" THEN Checked("False", client, account, Null, Null, path, calls)
    ELSE Checked("True", l.client, account, get_session_dict(l.client, t), Null, path, calls)

\* lines 364-405: profile check, then refresh, then full re-login
validate_session(client, account, t, tok, path, calls) ==
    UNION {
      LET p == my_profile(client, pa)
          c1 == calls \o p.call
      IN IF p.ret = "raise" THEN {Checked("raise", client, account, Null, Null, path, c1)}
         ELSE IF p.ret = "True" THEN {Checked("True", client, account, Null, Null, path, c1)}
         ELSE UNION {
           LET r == refresh_session(client, ra, tok)
               c2 == c1 \o r.call
           IN IF r.ret = "raise"
              THEN {Checked("raise", client, account, Null, Null, path, c2)}
              ELSE IF r.ret = "True"
              THEN {Checked("True", r.client, account, get_session_dict(r.client, t),
                            Null, path, c2)}
              ELSE {after_relogin(login(client, account.id, la, tok), client, account, t,
                                  path, c2 \o login(client, account.id, la, tok).call) :
                      la \in LoginAnswers}
           : ra \in Answers}
      : pa \in Answers}

\* lines 344-354: the result of the full re-login of the proactive path.
\* `not login(...)` is false for True and for 'MFA_REQUIRED' alike.  An
\* exception raised in this block is caught by the handler of line 359 and
\* the validation path follows.
after_proactive_relogin(l, client, account, t, tok, calls) ==
    IF l.ret = "raise" THEN validate_session(client, account, t, tok, "proactive", calls)
    ELSE IF l.ret = "False"
    THEN {Checked("False", client, account, Null, Null, "proactive", calls)}
    ELSE {Checked("True", l.client, account, get_session_dict(l.client, t), Null,
                  "proactive", calls)}

\* lines 339-354: the session is older than 40 minutes
refresh_proactively(client, account, t, tok) ==
    UNION {
      LET r == refresh_session(client, ra, tok)
          c1 == r.call
      IN IF r.ret = "raise"
         THEN validate_session(client, account, t, tok, "proactive", c1)
         ELSE IF r.ret = "True"
         THEN {Checked("True", r.client, account, get_session_dict(r.client, t), Null,
                       "proactive", c1)}
         ELSE UNION {
           after_proactive_relogin(login(client, account.id, la, tok), client, account, t,
                                   tok, c1 \o login(client, account.id, la, tok).call) :
             la \in LoginAnswers}
      : ra \in Answers}

\* a session check that goes on to the re-login chain without a stored session
ensure_valid_session_bootstrapping(client, account, t, tok) ==
    LET session_details == account.session_details
    IN IF session_details = Null
       THEN validate_session(client, account, t, tok, "none", <<>>)
       ELSE IF IsIsoTime(session_details.session_created_at)
            THEN IF session_is_old(session_details, t)
                 THEN refresh_proactively(set_session_from_dict(client, session_details),
                                          account, t, tok)
                 ELSE {Checked("True", set_session_from_dict(client, session_details),
                               account, Null, Null, "fresh", <<>>)}
            ELSE validate_session(set_session_from_dict(client, session_details),
                                  account, t, tok, "validate", <<>>)

\* lines 318-405
ensure_valid_session(client, account, t, tok) ==
    LET session_details == account.session_details
        loaded == set_session_from_dict(client, session_details)
        created == session_details.session_created_at
    IN IF session_details = Null
       THEN {Checked("False", client, account, Null, Null, "none", <<>>)}
       ELSE IF IsIsoTime(created)
            THEN IF session_is_old(session_details, t)
                 THEN refresh_proactively(loaded, account, t, tok)
                 ELSE {Checked("True", loaded, account, Null, Null, "fresh", <<>>)}
            ELSE validate_session(loaded, account, t, tok, "validate", <<>>)

VARIABLES
    now,        \* the wall clock, minutes
    store,      \* the account table: one record per account
    pipe,       \* per pool and account: the pipeline (process_account) in flight
    loop,       \* the scheduled loop: sleeping until loop.wake, or running a batch
    issued,     \* number of token sets the remote service has handed out
    cycles,     \* per account, the number of pipelines started so far
    placed,     \* history: per account and offer, the cycles that persisted it as new
    mfa_seen,   \* history: per account, a re-login answered with a two-factor challenge
    scraper_stats, \* the stats aggregate of the process
    event       \* history: what the last step did

vars == <<now, store, pipe, loop, issued, cycles, placed, mfa_seen, scraper_stats, event>>

\* The accounts are the rows of the account table.
Accounts == DOMAIN store
Slots == Batches \X Accounts

\* ------------------------------------------------------------ Init
WG == "wg-gesucht"

\* The token set of the session that the frontend created.
FrontendToken == 1

InitSessions ==
    {Null} \cup
    {[userId |-> 1, accessToken |-> FrontendToken, refreshToken |-> FrontendToken,
      devRefNo |-> FrontendToken, session_created_at |-> c] :
        c \in {Null, BadTime, isoformat(0 - REFRESH_AFTER_MINUTES)}}

InitListingData == {Null, [last_latest |-> DateOf(1), offers |-> {}]}

InitAccounts ==
    [id : {1}, website : {WG},
     configuration : [scrape_enabled : {TRUE}, contacted_ads : {0}],
     session_details : InitSessions,
     listing_data : InitListingData,
     last_updated_at : {Null},
     message : {<<"  ">>, <<"hi">>}]

\* An account of another website: never selected.
OtherAccount ==
    [id |-> 2, website |-> "other",
     configuration |-> [scrape_enabled |-> TRUE, contacted_ads |-> 0],
     session_details |-> Null, listing_data |-> Null,
     last_updated_at |-> Null, message |-> Null]

\* found: history, the persisted last_latest at the first step of the
\* pipeline, kept until its fetch
Idle ==
    [pc |-> "idle", account |-> Null, client |-> new_client, new_offers |-> {},
     mfa |-> FALSE, result |-> Null, found |-> Null]

NoEvent == [kind |-> "none"]

\* scraper_stats as the module creates it
InitialStats ==
    [total_runs |-> 0, successful_runs |-> 0, failed_runs |-> 0,
     total_new_offers |-> 0, last_check |-> Null, currently_running |-> 0,
     accounts_processed |-> <<>>]

\* The backend starts with the account table st.
StartWith(st) ==
    /\ now = 0
    /\ scraper_stats = InitialStats
    /\ store = st
    /\ pipe = [s \in Batches \X DOMAIN st |-> Idle]
    /\ loop = [pc |-> "sleep", wake |-> 0]
    /\ issued = FrontendToken
    /\ cycles = [a \in DOMAIN st |-> 0]
    /\ placed = [a \in DOMAIN st |-> [id \in OfferIds |-> 0]]
    /\ mfa_seen = [a \in DOMAIN st |-> FALSE]
    /\ event = NoEvent

Init == \E acc \in InitAccounts : StartWith(<<acc, OtherAccount>>)

\* ------------------------------------------------------ readiness
\* config.get('scrape_enabled', False)
get_scrape_enabled(config) ==
    IF "scrape_enabled" \in DOMAIN config THEN config.scrape_enabled ELSE FALSE

\* a selection that asks for more than SCRAPER_INTERVAL since the last update
is_ready_after_interval(account, t) ==
    /\ account.website = WG
    /\ get_scrape_enabled(account.configuration)
    /\ \/ account.last_updated_at = Null
       \/ ~IsIsoTime(account.last_updated_at)
       \/ t - fromisoformat(account.last_updated_at) > SCRAPER_INTERVAL

is_ready(account, t) ==
    /\ account.website = WG
    /\ get_scrape_enabled(account.configuration)
    /\ \/ account.last_updated_at = Null
       \/ ~IsIsoTime(account.last_updated_at)
       \/ t - fromisoformat(account.last_updated_at) >= SCRAPER_INTERVAL

get_accounts_ready_to_scrape(st, t) == {a \in DOMAIN st : is_ready(st[a], t)}

\* ------------------------------------------------------- pipeline
\* The account dictionary that the readiness check read and that the pipeline
\* works on, with the keys the pipeline reads.
account_dict(record) ==
    [id |-> record.id,
     configuration |-> record.configuration,
     session_details |-> record.session_details,
     listing_data |-> IF record.listing_data = Null THEN Null
                      ELSE [last_latest |-> record.listing_data.last_latest],
     message |-> record.message]

\* a pipeline that goes to the fetch without a session check
Started_at_fetch(record) == [Idle EXCEPT !.pc = "fetch", !.account = account_dict(record)]

\* process_account starts run_scraper_for_account with a client of its own
Started(record) == [Idle EXCEPT !.pc = "session", !.account = account_dict(record)]

\* what process_account returns
Result(success, count) == [success |-> success, count |-> count]
Finished(p, success, count) ==
    [p EXCEPT !.pc = "done", !.result = Result(success, count), !.found = Null]

Called(calls, call) == \E i \in 1..Len(calls) : calls[i] = call
CalledAny(calls, name) == \E i \in 1..Len(calls) : calls[i][1] = name

\* an update without the filter on the account id
StoreAfterCheck_unfiltered(st, a, c) ==
    [x \in DOMAIN st |->
        [st[x] EXCEPT !.session_details =
                          IF c.session_write = Null THEN @ ELSE c.session_write,
                      !.configuration =
                          IF c.config_write = Null THEN @ ELSE c.config_write]]

\* the store after the update that a session check made
StoreAfterCheck(st, a, c) ==
    [st EXCEPT ![a].session_details =
                   IF c.session_write = Null THEN @ ELSE c.session_write,
               ![a].configuration =
                   IF c.config_write = Null THEN @ ELSE c.config_write]

TokenUsed(c, tok) == c.client.accessToken = tok

CheckEvent(s, stage, p, c) ==
    [kind |-> "check", slot |-> s, stage |-> stage, path |-> c.path, ret |-> c.ret,
     calls |-> c.calls, session_write |-> c.session_write,
     config_write |-> c.config_write, mfa_before |-> p.mfa,
     mfa_seen_before |-> mfa_seen[s[2]]]

\* one call of ensure_valid_session by the pipeline of slot s, with its store update
SessionCheck(s, stage, c) ==
    LET tok == issued + 1
    IN /\ TokenUsed(c, tok) => issued < MaxIssued
       /\ issued' = IF TokenUsed(c, tok) THEN tok ELSE issued
       /\ store' = StoreAfterCheck(store, s[2], c)
       /\ mfa_seen' = [mfa_seen EXCEPT ![s[2]] = @ \/ Called(c.calls, <<"login", "mfa">>)]
       /\ event' = CheckEvent(s, stage, pipe[s], c)

AfterCheck(p, c) ==
    [p EXCEPT !.client = c.client, !.account = c.account,
              !.mfa = @ \/ Called(c.calls, <<"login", "mfa">>)]

\* the persisted last_latest of an account (Null when there is none)
Watermark(st, a) ==
    IF st[a].listing_data = Null THEN Null ELSE st[a].listing_data.last_latest

\* lines 452-456: the session check before the fetch
SessionStep(s) ==
    /\ pipe[s].pc = "session"
    /\ \E c \in ensure_valid_session(pipe[s].client, pipe[s].account, now, issued + 1) :
         /\ SessionCheck(s, "fetch", c)
         /\ LET p == [AfterCheck(pipe[s], c) EXCEPT !.found = Watermark(store, s[2])]
            IN pipe' = [pipe EXCEPT ![s] =
                          IF c.ret = "True" THEN [p EXCEPT !.pc = "fetch"]
                          ELSE Finished(p, FALSE, 0)]
    /\ UNCHANGED <<now, loop, cycles, placed, scraper_stats>>

FetchEvent(s, answer, offers, last_latest_str, new_offers, save_ok) ==
    [kind |-> "fetch", slot |-> s, answer |-> answer, offers |-> offers,
     last_latest |-> last_latest_str, new_offers |-> new_offers, save_ok |-> save_ok,
     watermark_before |-> Watermark(store, s[2]),
     listing_before |-> store[s[2]].listing_data, found |-> pipe[s].found,
     updated_before |-> store[s[2]].last_updated_at]

Counted(count, new_offers) ==
    [id \in OfferIds |-> IF \E o \in new_offers : o.offer_id = id
                         THEN count[id] + 1 ELSE count[id]]

\* a fetch that takes a request without answer for a response without offers
offers_all_lenient(answer, offers) ==
    IF answer = "raise" THEN [ret |-> "raise", offers |-> {}]
    ELSE IF answer = "fail" THEN [ret |-> "ok", offers |-> {}]
    ELSE [ret |-> "ok", offers |-> offers]

\* offers_all: the offers of the response ("ok"), None when the request was
\* answered non-2xx, or "raise" when the transport raises
offers_all(answer, offers) ==
    IF answer = "raise" THEN [ret |-> "raise", offers |-> {}]
    ELSE IF answer = "fail" THEN [ret |-> "None", offers |-> {}]
    ELSE [ret |-> "ok", offers |-> offers]

\* lines 470-581: fetch, reconcile against last_latest, persist.
\* save_ok: whether the store update of lines 571-574 succeeds.
FetchStep(s) ==
    /\ pipe[s].pc = "fetch"
    /\ \E answer \in Answers, offers \in SUBSET AllOffers, save_ok \in BOOLEAN :
         LET p == pipe[s]
             a == s[2]
             existing_listing_data == p.account.listing_data
             last_latest_str ==
                 IF existing_listing_data = Null THEN Null
                 ELSE existing_listing_data.last_latest
             last_latest_time ==
                 IF last_latest_str = Null THEN Null ELSE parse_date(last_latest_str)
             raw_response == offers_all(answer, offers)
             new_offers == new_offers_of(raw_response.offers, last_latest_time)
         IN IF raw_response.ret # "ok"
            THEN /\ offers = {} /\ save_ok
                 /\ pipe' = [pipe EXCEPT ![s] = Finished(p, FALSE, 0)]
                 /\ event' = FetchEvent(s, answer, offers, last_latest_str, {}, save_ok)
                 /\ UNCHANGED <<store, placed>>
            ELSE IF last_latest_time = Null
            THEN /\ save_ok
                 /\ store' = [store EXCEPT
                                ![a].listing_data =
                                    first_run_listing_data(raw_response.offers),
                                ![a].last_updated_at = isoformat(now)]
                 /\ pipe' = [pipe EXCEPT ![s] = Finished(p, TRUE, 0)]
                 /\ event' = FetchEvent(s, answer, offers, last_latest_str, {}, save_ok)
                 /\ UNCHANGED placed
            ELSE IF new_offers = {}
            THEN /\ save_ok
                 /\ store' = [store EXCEPT ![a].last_updated_at = isoformat(now)]
                 /\ pipe' = [pipe EXCEPT ![s] = Finished(p, TRUE, 0)]
                 /\ event' = FetchEvent(s, answer, offers, last_latest_str, {}, save_ok)
                 /\ UNCHANGED placed
            ELSE /\ placed' = [placed EXCEPT ![a] =
                                 IF save_ok THEN Counted(@, new_offers) ELSE @]
                 /\ event' = FetchEvent(s, answer, offers, last_latest_str, new_offers,
                                        save_ok)
                 /\ IF save_ok
                    THEN /\ store' = [store EXCEPT
                                        ![a].listing_data = updated_listing_data(new_offers),
                                        ![a].last_updated_at = isoformat(now)]
                         /\ pipe' = [pipe EXCEPT ![s] =
                                       [p EXCEPT !.pc = "contact",
                                                 !.new_offers = new_offers,
                                                 !.found = Null]]
                    ELSE /\ store' = store
                         /\ pipe' = [pipe EXCEPT ![s] = Finished(p, FALSE, 0)]
    /\ UNCHANGED <<now, loop, issued, cycles, mfa_seen, scraper_stats>>

\* lines 587-598: the message test and the session check before auto-contact
ContactStep(s) ==
    /\ pipe[s].pc = "contact"
    /\ LET p == pipe[s]
           n == Cardinality(p.new_offers)
       IN IF message_is_empty(p.account.message)
          THEN /\ pipe' = [pipe EXCEPT ![s] = Finished(p, TRUE, n)]
               /\ event' = [kind |-> "no-message", slot |-> s]
               /\ UNCHANGED <<store, issued, mfa_seen>>
          ELSE \E c \in ensure_valid_session(p.client, p.account, now, issued + 1) :
                 /\ SessionCheck(s, "contact", c)
                 /\ pipe' = [pipe EXCEPT ![s] =
                               IF c.ret = "True" THEN [AfterCheck(p, c) EXCEPT !.pc = "send"]
                               ELSE IF c.ret = "False" THEN Finished(AfterCheck(p, c), TRUE, n)
                               ELSE Finished(AfterCheck(p, c), FALSE, 0)]
    /\ UNCHANGED <<now, loop, cycles, placed, scraper_stats>>

\* the configuration written after the sends: the counter of the account
\* dictionary plus the successes of this cycle
counted_configuration(config, contacted_count) ==
    [config EXCEPT !.contacted_ads = @ + contacted_count]

\* the offers that the loop of lines 604-619 reaches: all of them, or, when a
\* send raises, those up to the first one that raises.  The offers are sent
\* in the order of lines 557-561, latest first.
attempted_offers(new_offers, answers) ==
    LET raising == {o \in new_offers : answers[o] = "raise"}
        time(o) == parse_date(o.date_of_entry_details)[1]
    IN IF raising = {} THEN new_offers
       ELSE {o \in new_offers : time(o) >= SetMax({time(r) : r \in raising})}

\* lines 600-641: one contact_offer per new offer, then the counter update.
\* answers: what the remote service answers to each send; a send that raises
\* ends the cycle in process_account; save_ok: the update of 630-632 succeeds.
SendStep(s) ==
    /\ pipe[s].pc = "send"
    /\ \E answers \in [pipe[s].new_offers -> Answers], save_ok \in BOOLEAN :
         LET p == pipe[s]
             a == s[2]
             attempted == attempted_offers(p.new_offers, answers)
             sent == {o \in attempted : answers[o] = "ok"}
             raised == \E o \in p.new_offers : answers[o] = "raise"
             contacted_count == Cardinality(sent)
             config == counted_configuration(p.account.configuration, contacted_count)
         IN /\ event' = [kind |-> "send", slot |-> s, attempted |-> attempted,
                         sent |-> sent, raised |-> raised, save_ok |-> save_ok,
                         tokens |-> p.client.accessToken,
                         contacted_before |-> store[a].configuration.contacted_ads]
            /\ IF raised
               THEN /\ save_ok
                    /\ pipe' = [pipe EXCEPT ![s] = Finished(p, FALSE, 0)]
                    /\ store' = store
               ELSE IF contacted_count > 0
               THEN /\ pipe' = [pipe EXCEPT ![s] =
                                  Finished([p EXCEPT !.account.configuration = config],
                                           TRUE, Cardinality(p.new_offers))]
                    /\ store' = IF save_ok
                                THEN [store EXCEPT ![a].configuration = config]
                                ELSE store
               ELSE /\ save_ok
                    /\ pipe' = [pipe EXCEPT ![s] =
                                  Finished(p, TRUE, Cardinality(p.new_offers))]
                    /\ store' = store
    /\ UNCHANGED <<now, loop, issued, cycles, placed, mfa_seen, scraper_stats>>

\* ------------------------------------------------- scheduled loop
\* The ready accounts are submitted to a ThreadPoolExecutor with
\* MAX_CONCURRENT_SCRAPERS workers.  A batch is no larger than the pool, so
\* that every submitted pipeline starts at once.
Submitted(ready_accounts) ==
    /\ Cardinality(ready_accounts) <= MAX_CONCURRENT_SCRAPERS
    /\ \A a \in ready_accounts : cycles[a] < MaxCycles
    /\ cycles' = [a \in Accounts |->
                    IF a \in ready_accounts THEN cycles[a] + 1 ELSE cycles[a]]

\* lines 137 and 154: the time of the check, and the number of futures of a
\* batch that is not empty
checked(stats, ready_accounts, t) ==
    [stats EXCEPT !.last_check = isoformat(t),
                  !.currently_running =
                      IF ready_accounts = {} THEN @ ELSE Cardinality(ready_accounts)]

\* the entry of accounts_processed for one result
outcome(email, result, t) ==
    [email |-> email, timestamp |-> isoformat(t),
     new_offers |-> IF result.success THEN result.count ELSE 0,
     status |-> IF result.success THEN "success" ELSE "failed"]

\* an aggregation that counts a failed result as lines 184-186 count an
\* exception of the future: in failed_runs only
aggregated_without_total(stats, email, result, t) ==
    [stats EXCEPT
        !.total_runs = IF result.success THEN @ + 1 ELSE @,
        !.successful_runs = IF result.success THEN @ + 1 ELSE @,
        !.total_new_offers = IF result.success THEN @ + result.count ELSE @,
        !.failed_runs = IF result.success THEN @ ELSE @ + 1,
        !.accounts_processed = Append(@, outcome(email, result, t))]

\* lines 160-182: the result of one future is added to the aggregate
aggregated(stats, email, result, t) ==
    [stats EXCEPT
        !.total_runs = @ + 1,
        !.successful_runs = IF result.success THEN @ + 1 ELSE @,
        !.total_new_offers = IF result.success THEN @ + result.count ELSE @,
        !.failed_runs = IF result.success THEN @ ELSE @ + 1,
        !.accounts_processed = Append(@, outcome(email, result, t))]

\* scraper_stats['accounts_processed'][-100:]
last_entries(entries) ==
    IF Len(entries) > HISTORY_LIMIT
    THEN SubSeq(entries, Len(entries) - HISTORY_LIMIT + 1, Len(entries))
    ELSE entries

\* a batch end that leaves currently_running as it is
batch_closed_still_running(stats) ==
    [stats EXCEPT !.accounts_processed = last_entries(@)]

\* lines 188-192: the batch is complete
batch_closed(stats) ==
    [stats EXCEPT !.currently_running = 0,
                  !.accounts_processed = last_entries(@)]

\* lines 137-154: the readiness check and the submission of the batch
SchedCheck ==
    /\ loop.pc = "sleep"
    /\ now >= loop.wake
    /\ LET ready_accounts == get_accounts_ready_to_scrape(store, now)
       IN /\ Submitted(ready_accounts)
          /\ event' = NoEvent
          /\ scraper_stats' = checked(scraper_stats, ready_accounts, now)
          /\ IF ready_accounts = {}
             THEN /\ loop' = [pc |-> "sleep", wake |-> now + QUEUE_CHECK_INTERVAL]
                  /\ pipe' = pipe
             ELSE /\ loop' = [pc |-> "running", wake |-> 0]
                  /\ pipe' = [s \in Slots |->
                                IF s[1] = "sched" /\ s[2] \in ready_accounts
                                THEN Started(store[s[2]]) ELSE pipe[s]]
    /\ UNCHANGED <<now, store, issued, placed, mfa_seen>>

\* lines 157-186: one completed future is taken from as_completed
SchedCollect(a) ==
    /\ loop.pc = "running"
    /\ pipe[<<"sched", a>>].pc = "done"
    /\ pipe' = [pipe EXCEPT ![<<"sched", a>>] = Idle]
    /\ scraper_stats' = aggregated(scraper_stats, a, pipe[<<"sched", a>>].result, now)
    /\ event' = NoEvent
    /\ UNCHANGED <<now, store, loop, issued, cycles, placed, mfa_seen>>

\* lines 188-205: the batch is complete; sleep until the next check
SchedSleep ==
    /\ loop.pc = "running"
    /\ \A a \in Accounts : pipe[<<"sched", a>>].pc = "idle"
    /\ loop' = [pc |-> "sleep", wake |-> now + QUEUE_CHECK_INTERVAL]
    /\ scraper_stats' = batch_closed(scraper_stats)
    /\ event' = NoEvent
    /\ UNCHANGED <<now, store, pipe, issued, cycles, placed, mfa_seen>>

\* ------------------------------------------------- manual trigger
\* trigger_scrape: the same readiness check, then a pool of its own.  One
\* triggered batch is in flight at a time.
TriggerScrape ==
    /\ \A a \in Accounts : pipe[<<"manual", a>>].pc = "idle"
    /\ LET ready_accounts == get_accounts_ready_to_scrape(store, now)
       IN /\ ready_accounts # {}
          /\ Submitted(ready_accounts)
          /\ event' = NoEvent
          /\ pipe' = [s \in Slots |->
                        IF s[1] = "manual" /\ s[2] \in ready_accounts
                        THEN Started(store[s[2]]) ELSE pipe[s]]
    /\ UNCHANGED <<now, store, loop, issued, placed, mfa_seen, scraper_stats>>

\* lines 295-299: the result of a triggered pipeline is dropped
ManualCollect(a) ==
    /\ pipe[<<"manual", a>>].pc = "done"
    /\ pipe' = [pipe EXCEPT ![<<"manual", a>>] = Idle]
    /\ event' = NoEvent
    /\ UNCHANGED <<now, store, loop, issued, cycles, placed, mfa_seen, scraper_stats>>

\* ---------------------------------------------------------- clock
\* The clock is read once per polling interval; a pipeline, whose remote calls
\* take seconds, runs between two readings.
Tick ==
    /\ now < MaxTicks * SCRAPER_INTERVAL
    /\ \A s \in Slots : pipe[s].pc = "idle"
    /\ now' = now + SCRAPER_INTERVAL
    /\ event' = NoEvent
    /\ UNCHANGED <<store, pipe, loop, issued, cycles, placed, mfa_seen, scraper_stats>>

Next ==
    \/ Tick
    \/ SchedCheck
    \/ \E a \in Accounts : SchedCollect(a)
    \/ SchedSleep
    \/ TriggerScrape
    \/ \E a \in Accounts : ManualCollect(a)
    \/ \E s \in Slots : SessionStep(s)
    \/ \E s \in Slots : FetchStep(s)
    \/ \E s \in Slots : ContactStep(s)
    \/ \E s \in Slots : SendStep(s)

Spec == Init /\ [][Next]_vars

\* ------------------------------------------ cycles with several new offers
\* A watermark one hour before the first offer of the marketplace: a cycle
\* can find two new offers.
EarlierDate == <<1, 22>>

InitContactAccounts ==
    [id : {1}, website : {WG},
     configuration : [scrape_enabled : {TRUE}, contacted_ads : {0}],
     session_details : {sd \in InitSessions :
                           sd # Null /\ sd.session_created_at # BadTime},
     listing_data : {[last_latest |-> EarlierDate, offers |-> {}]},
     last_updated_at : {Null},
     message : {<<"  ">>, <<"hi">>}]

InitContact == \E acc \in InitContactAccounts : StartWith(<<acc, OtherAccount>>)

SpecContact == InitContact /\ [][Next]_vars

\* ------------------------------------------------ two accounts in a batch
\* An account with a session of unknown age, a watermark and a message.
ActiveAccount(a) ==
    [id |-> a, website |-> WG,
     configuration |-> [scrape_enabled |-> TRUE, contacted_ads |-> 0],
     session_details |-> [userId |-> a, accessToken |-> FrontendToken,
                          refreshToken |-> FrontendToken, devRefNo |-> FrontendToken,
                          session_created_at |-> Null],
     listing_data |-> [last_latest |-> DateOf(1), offers |-> {}],
     last_updated_at |-> Null,
     message |-> <<"hi">>]

InitTwo == StartWith(<<ActiveAccount(1), ActiveAccount(2)>>)

\* The scheduled loop and the pipelines of its batches.
NextTwo ==
    \/ Tick
    \/ SchedCheck
    \/ \E a \in Accounts : SchedCollect(a)
    \/ SchedSleep
    \/ \E s \in Slots : SessionStep(s)
    \/ \E s \in Slots : FetchStep(s)
    \/ \E s \in Slots : ContactStep(s)
    \/ \E s \in Slots : SendStep(s)

SpecTwo == InitTwo /\ [][NextTwo]_vars

\* ------------------------------------- the cycles of the scheduled loop
\* One account with a watermark before the first offer, and no manual
\* trigger: a cycle starts when the cycle before it has ended.
SpecSched == InitContact /\ [][NextTwo]_vars

\* ------------------------------------------- more accounts than half a pool
\* An enabled account whose session the frontend has not created yet: its
\* pipeline ends in the session check.
NewAccount(a) ==
    [id |-> a, website |-> WG,
     configuration |-> [scrape_enabled |-> TRUE, contacted_ads |-> 0],
     session_details |-> Null, listing_data |-> Null,
     last_updated_at |-> Null, message |-> Null]

\* Enough accounts for two batches to hold more pipelines than one pool.
PoolAccounts == 1..(MAX_CONCURRENT_SCRAPERS \div 2 + 1)

InitPool == StartWith([a \in PoolAccounts |-> NewAccount(a)])

\* The two dispatchers and the session checks of the pipelines they start:
\* the behaviours of Next from the submission of a batch until its pipelines
\* have ended.
NextPool ==
    \/ SchedCheck
    \/ TriggerScrape
    \/ \E s \in Slots : SessionStep(s)

SpecPool == InitPool /\ [][NextPool]_vars

\* ------------------------------------------------ batches that end
\* Every external call returns or raises, so a pipeline that can take its
\* next step takes it; as_completed hands over a finished future, the loop
\* goes on after the last one, time.sleep returns and time passes.
TwoSlots == {"sched"} \X {1, 2}
FairTwo ==
    /\ \A s \in TwoSlots :
          /\ WF_vars(SessionStep(s)) /\ WF_vars(FetchStep(s))
          /\ WF_vars(ContactStep(s)) /\ WF_vars(SendStep(s))
          /\ WF_vars(SchedCollect(s[2]))
    /\ WF_vars(SchedSleep) /\ WF_vars(SchedCheck) /\ WF_vars(Tick)

\* A batch of an account that can go through its whole cycle and an account
\* without session, whose pipeline fails every time.
InitMixed == StartWith(<<ActiveAccount(1), NewAccount(2)>>)

SpecBatchFair == InitMixed /\ [][NextTwo]_vars /\ FairTwo

\* ------------------------------------------------ a backend that has run
\* The backend after HISTORY_LIMIT pipelines of two accounts without session:
\* every batch, one per QUEUE_CHECK_INTERVAL, has added two failed outcomes.
\* The clock and the counter of started pipelines count from this state on.
PastOutcomes ==
    [i \in 1..HISTORY_LIMIT |->
        [email |-> 2 - (i % 2),
         timestamp |-> isoformat(0 - QUEUE_CHECK_INTERVAL
                                       * ((HISTORY_LIMIT - i) \div 2 + 1)),
         new_offers |-> 0, status |-> "failed"]]

PastStats ==
    [total_runs |-> HISTORY_LIMIT, successful_runs |-> 0,
     failed_runs |-> HISTORY_LIMIT, total_new_offers |-> 0,
     last_check |-> isoformat(0 - QUEUE_CHECK_INTERVAL), currently_running |-> 0,
     accounts_processed |-> PastOutcomes]

InitHistory ==
    /\ now = 0
    /\ scraper_stats = PastStats
    /\ store = <<NewAccount(1), NewAccount(2)>>
    /\ pipe = [s \in Batches \X {1, 2} |-> Idle]
    /\ loop = [pc |-> "sleep", wake |-> 0]
    /\ issued = FrontendToken
    /\ cycles = <<0, 0>>
    /\ placed = [a \in {1, 2} |-> [id \in OfferIds |-> 0]]
    /\ mfa_seen = <<FALSE, FALSE>>
    /\ event = NoEvent

\* The dispatchers and the session checks, in which these pipelines end.
NextHistory ==
    \/ Tick
    \/ SchedCheck
    \/ \E a \in Accounts : SchedCollect(a)
    \/ SchedSleep
    \/ TriggerScrape
    \/ \E a \in Accounts : ManualCollect(a)
    \/ \E s \in Slots : SessionStep(s)

SpecHistory == InitHistory /\ [][NextHistory]_vars

\* ------------------------------------------- the inputs of the selection
\* Accounts without session whose flag is set, cleared or absent, and that
\* were never updated, updated just now, one minute less than
\* SCRAPER_INTERVAL ago, SCRAPER_INTERVAL ago, or at a time that is not an
\* ISO text.
ReadinessInputs(a) ==
    {[NewAccount(a) EXCEPT !.configuration = config, !.last_updated_at = updated] :
        config \in {[scrape_enabled |-> TRUE, contacted_ads |-> 0],
                    [scrape_enabled |-> FALSE, contacted_ads |-> 0],
                    [contacted_ads |-> 0]},
        updated \in {Null, BadTime, isoformat(0), isoformat(1 - SCRAPER_INTERVAL),
                     isoformat(0 - SCRAPER_INTERVAL)}}

InitReady ==
    \E first \in ReadinessInputs(1), second \in ReadinessInputs(2) :
        StartWith(<<first, second>>)

SpecReady == InitReady /\ [][NextHistory]_vars

\* ================================================================ claims
\* Offers and dates as the claims speak of them, independent of parse_date.
InFormat(d) == d # Null /\ d[1] >= 1 /\ d[1] <= 31 /\ d[2] >= 0 /\ d[2] <= 23
Later(d, w) == d[1] > w[1] \/ (d[1] = w[1] /\ d[2] > w[2])
\* d is the date of the latest offer of the set
IsLatestOf(d, offers) ==
    /\ \E o \in offers : InFormat(o.date_of_entry_details) /\ o.date_of_entry_details = d
    /\ \A o \in offers : InFormat(o.date_of_entry_details) => ~Later(o.date_of_entry_details, d)
InFlight(s) == pipe[s].pc \in {"session", "fetch", "contact", "send"}
FetchedOk == event.kind = "fetch" /\ event.answer = "ok"

\* C1: every update of the persisted last_latest of an account writes a value
\* greater than or equal to the value it replaces.
C1_WatermarkNeverDecreases ==
    [][\A a \in Accounts :
         Watermark(store, a) # Null =>
             /\ Watermark(store', a) # Null
             /\ ~Later(Watermark(store, a), Watermark(store', a))]_vars

\* C2 (as stated): after a successful fetch by a cycle with prior watermark W,
\* the new-listing set is exactly the fetched offers dated after W; when it is
\* non-empty the persisted watermark is the latest date of the set, otherwise
\* the persisted watermark is unchanged.
C2_ExactDeltaAlwaysPersisted ==
    (FetchedOk /\ event.last_latest # Null) =>
        /\ event.new_offers =
             {o \in event.offers : /\ InFormat(o.date_of_entry_details)
                                   /\ Later(o.date_of_entry_details, event.last_latest)}
        /\ event.new_offers # {} =>
             IsLatestOf(Watermark(store, event.slot[2]), event.new_offers)
        /\ event.new_offers = {} =>
             Watermark(store, event.slot[2]) = event.watermark_before

\* C2 (amended): the new-listing set is exactly the fetched offers dated after
\* W; when it is non-empty and the store update succeeds the persisted
\* watermark is the latest date of the set; when it is empty or the store
\* update fails the persisted watermark is unchanged, and a cycle whose store
\* update fails ends with success = false.
C2_ExactDelta ==
    (FetchedOk /\ event.last_latest # Null) =>
        /\ event.new_offers =
             {o \in event.offers : /\ InFormat(o.date_of_entry_details)
                                   /\ Later(o.date_of_entry_details, event.last_latest)}
        /\ (event.new_offers # {} /\ event.save_ok) =>
             IsLatestOf(Watermark(store, event.slot[2]), event.new_offers)
        /\ (event.new_offers = {} \/ ~event.save_ok) =>
             Watermark(store, event.slot[2]) = event.watermark_before
        /\ (event.new_offers # {} /\ ~event.save_ok) =>
             pipe[event.slot].result = Result(FALSE, 0)

\* C2 witness: a fetch with an offer dated as the watermark and a later one
\* has kept the later one only and moved the watermark to its date.
C2_Witness ==
    /\ FetchedOk /\ event.save_ok
    /\ event.last_latest = DateOf(1)
    /\ {Offer(1), Offer(2)} \subseteq event.offers
    /\ event.new_offers = {Offer(2)}
    /\ Watermark(store, event.slot[2]) = DateOf(2)

C4_NoDuplicatesNoGaps ==
    /\ \A a \in Accounts : \A id \in OfferIds : placed[a][id] <= 1
    /\ (FetchedOk /\ event.watermark_before # Null) =>
          \A o \in event.offers :
             (InFormat(o.date_of_entry_details)
              /\ Later(o.date_of_entry_details, event.watermark_before))
                => o \in event.new_offers

IsCheck == event.kind = "check"
MfaAnswered == IsCheck /\ Called(event.calls, <<"login", "mfa">>)

\* C5: in the proactive-refresh path, when the refresh fails and the re-login
\* answers with a two-factor challenge, scrape_enabled is cleared in the store
\* and the session check does not report a valid session.
C5_ProactiveMfaDisables ==
    (MfaAnswered /\ event.path = "proactive") =>
        /\ ~store[event.slot[2]].configuration.scrape_enabled
        /\ event.ret # "True"

C7_MfaEndsCycle ==
    /\ \A s \in Slots :
         (pipe[s].pc = "done" /\ pipe[s].mfa) =>
             /\ ~store[s[2]].configuration.scrape_enabled
             /\ pipe[s].result.success = FALSE
    /\ (IsCheck /\ event.mfa_before) => ~CalledAny(event.calls, "login")

\* C8: after a two-factor challenge was returned for an account, the account
\* is not selected by a readiness check, no cycle is started for it and no
\* refresh or login is made for it.
C8_NoRetryAfterMfa ==
    /\ \A a \in Accounts : mfa_seen[a] => a \notin get_accounts_ready_to_scrape(store, now)
    /\ (IsCheck /\ event.mfa_seen_before) =>
          ~(CalledAny(event.calls, "login") \/ CalledAny(event.calls, "refresh"))

\* C9: once the system has cleared scrape_enabled of an account, no later
\* write of the system sets it again.
C9_DisabledStaysDisabled ==
    [][\A a \in Accounts :
         (mfa_seen[a] /\ ~store[a].configuration.scrape_enabled) =>
             ~store'[a].configuration.scrape_enabled]_vars

\* C10: at most one pipeline is executing for an account at any time.
C10_OneCyclePerAccount ==
    \A a \in Accounts : Cardinality({s \in Slots : s[2] = a /\ InFlight(s)}) <= 1

\* C11: a session check of an account without persisted session state makes
\* no remote call, writes nothing to the store and reports failure, and the
\* cycle ends with (success = false, count = 0).
C11_NoSessionFailsAtOnce ==
    (IsCheck /\ pipe[event.slot].account.session_details = Null) =>
        /\ event.calls = <<>>
        /\ event.session_write = Null
        /\ event.config_write = Null
        /\ event.ret = "False"
        /\ store[event.slot[2]].session_details = Null
        /\ pipe[event.slot].pc = "done"
        /\ pipe[event.slot].result = Result(FALSE, 0)

\* C11 witness: the cycle of an account without session has ended in its
\* session check
C11_Witness ==
    /\ IsCheck /\ event.stage = "fetch" /\ event.path = "none"
    /\ pipe[event.slot].account.session_details = Null
    /\ pipe[event.slot].result = Result(FALSE, 0)

SessionFields == {"userId", "accessToken", "refreshToken", "devRefNo", "session_created_at"}
\* the tokens of a session come from one login or refresh response
FromOneResponse(session) ==
    /\ session.accessToken = session.refreshToken
    /\ session.refreshToken = session.devRefNo

\* C12: a session check that writes session state writes, in one update, the
\* user id and the three tokens of its client with the time of the write as
\* creation timestamp; every persisted session holds the tokens of one
\* response.
C12_SessionReplacedAsAWhole ==
    /\ \A a \in Accounts :
          store[a].session_details # Null => FromOneResponse(store[a].session_details)
    /\ (IsCheck /\ event.session_write # Null) =>
          /\ store[event.slot[2]].session_details = event.session_write
          /\ DOMAIN event.session_write = SessionFields
          /\ event.session_write.session_created_at = isoformat(now)
          /\ event.session_write.userId = pipe[event.slot].client.userId
          /\ event.session_write.accessToken = pipe[event.slot].client.accessToken
          /\ event.session_write.refreshToken = pipe[event.slot].client.refreshToken
          /\ event.session_write.devRefNo = pipe[event.slot].client.devRefNo

\* C12 witness: a refresh has replaced the frontend's session
C12_Witness ==
    /\ IsCheck /\ Called(event.calls, <<"refresh", "ok">>)
    /\ event.session_write # Null
    /\ store[event.slot[2]].session_details.accessToken # FrontendToken
    /\ store[event.slot[2]].session_details.refreshToken # FrontendToken

\* the number of calls of one kind that a session check made
Attempts(calls, name) == Cardinality({i \in 1..Len(calls) : calls[i][1] = name})
RefreshFailed(calls) ==
    Called(calls, <<"refresh", "fail">>) \/ Called(calls, <<"refresh", "raise">>)

\* C13: a session check makes at most one refresh attempt and at most one
\* login attempt; when its refresh fails, by a non-2xx answer or a transport
\* failure, it makes exactly one login attempt; when the login succeeds the
\* new session is written and the check reports a valid session, so that the
\* pipeline goes on to the fetch.
C13_RefreshFailureMeansOneRelogin ==
    IsCheck =>
        /\ Attempts(event.calls, "refresh") <= 1
        /\ Attempts(event.calls, "login") <= 1
        /\ RefreshFailed(event.calls) => Attempts(event.calls, "login") = 1
        /\ Called(event.calls, <<"login", "ok">>) =>
              /\ event.ret = "True"
              /\ event.session_write # Null
              /\ event.stage = "fetch" => pipe[event.slot].pc = "fetch"

\* C14: a session check reports a valid session only after a successful
\* profile call, a successful refresh or a successful login of that check;
\* when the session age is within the threshold, unknown or unparsable, the
\* check makes the profile call.
C14_ValidOnlyAfterProfileCall ==
    IsCheck =>
        /\ event.ret = "True" =>
              \/ Called(event.calls, <<"profile", "ok">>)
              \/ Called(event.calls, <<"refresh", "ok">>)
              \/ Called(event.calls, <<"login", "ok">>)
        /\ event.path \in {"fresh", "validate"} => CalledAny(event.calls, "profile")

\* C15: a cycle with a non-empty new-listing set persists the set, the
\* watermark and the last-updated timestamp in one update and only then turns
\* to the contact stage; when the update fails the cycle ends with
\* (success = false, count = 0) without a contact send and the persisted
\* listing data and last-updated timestamp are as before.  A pipeline in the
\* contact stage has persisted every offer of its set.
C15_PersistBeforeContact ==
    /\ (FetchedOk /\ event.new_offers # {}) =>
          LET a == event.slot[2]
          IN IF event.save_ok
             THEN /\ store[a].listing_data.offers = event.new_offers
                  /\ IsLatestOf(Watermark(store, a), event.new_offers)
                  /\ store[a].last_updated_at = isoformat(now)
                  /\ pipe[event.slot].pc = "contact"
                  /\ pipe[event.slot].new_offers = event.new_offers
             ELSE /\ store[a].listing_data = event.listing_before
                  /\ store[a].last_updated_at = event.updated_before
                  /\ pipe[event.slot].pc = "done"
                  /\ pipe[event.slot].result = Result(FALSE, 0)
    /\ \A s \in Slots :
          pipe[s].pc \in {"contact", "send"} =>
              /\ pipe[s].new_offers # {}
              /\ \A o \in pipe[s].new_offers : placed[s[2]][o.offer_id] >= 1

\* C15 witness: the store refused the update of a cycle that found a new offer
C15_Witness ==
    /\ FetchedOk /\ event.new_offers = {Offer(2)} /\ ~event.save_ok
    /\ Watermark(store, event.slot[2]) = DateOf(1)
    /\ pipe[event.slot].result = Result(FALSE, 0)

IsSend == event.kind = "send"

\* C16: a cycle that persisted a non-empty new-listing set attempts a send
\* for every offer of the set when the contact message is not empty, and
\* attempts none and ends with (success, number of new offers) when the
\* message is empty or absent.
C16_SendsIffMessage ==
    /\ event.kind = "no-message" =>
          /\ message_is_empty(pipe[event.slot].account.message)
          /\ pipe[event.slot].pc = "done"
          /\ pipe[event.slot].result =
                Result(TRUE, Cardinality(pipe[event.slot].new_offers))
    /\ (IsCheck /\ event.stage = "contact") =>
          /\ ~message_is_empty(pipe[event.slot].account.message)
          /\ pipe[event.slot].pc = "send"
    /\ IsSend =>
          /\ ~message_is_empty(pipe[event.slot].account.message)
          /\ event.attempted = pipe[event.slot].new_offers

\* C17: in the send stage every offer of the new-listing set is attempted
\* whatever the other sends answer, and the cycle ends with
\* (success, number of new offers).
C17_SendsAreIsolated ==
    IsSend =>
        /\ \A o \in pipe[event.slot].new_offers : o \in event.attempted
        /\ pipe[event.slot].pc = "done"
        /\ pipe[event.slot].result =
              Result(TRUE, Cardinality(pipe[event.slot].new_offers))

\* C18: the send stage of a cycle leaves the persisted contacted_ads at its
\* previously persisted value plus the number of sends that succeeded (with
\* no successful send the counter is as before), so that the counter is the
\* total of the successful sends.
C18_CounterCountsSends ==
    IsSend =>
        store[event.slot[2]].configuration.contacted_ads =
            event.contacted_before + Cardinality(event.sent)

\* C20: at most MAX_CONCURRENT_SCRAPERS pipelines are executing at any time,
\* those of the scheduled batch and of the triggered batch together.
C20_PipelinesWithinCap ==
    Cardinality({s \in Slots : InFlight(s)}) <= MAX_CONCURRENT_SCRAPERS

\* a step in which a component of the pipeline failed: a session check that
\* raises or, before the fetch, reports no valid session; a fetch that fails;
\* a listing update that the store refuses; a send that raises
FailedStep(e) ==
    \/ e.kind = "check" /\ (e.ret = "raise" \/ (e.stage = "fetch" /\ e.ret = "False"))
    \/ e.kind = "fetch" /\ (e.answer # "ok" \/ ~e.save_ok)
    \/ e.kind = "send" /\ e.raised

RECURSIVE SumOf(_, _)
SumOf(f, S) ==
    IF S = {} THEN 0
    ELSE LET x == CHOOSE y \in S : TRUE IN f[x] + SumOf(f, S \ {x})
\* the scheduled loop takes the result of account a from its future
Collects(a) ==
    /\ loop.pc = "running"
    /\ pipe[<<"sched", a>>].pc = "done"
    /\ pipe'[<<"sched", a>>].pc = "idle"

\* C21: every result that the scheduled loop takes from a pipeline adds one
\* to total_runs, one to either successful_runs or failed_runs, and the count
\* of a successful pipeline to total_new_offers, in whatever order the
\* pipelines of the batch end; total_runs = successful_runs + failed_runs
\* throughout, and when a batch is complete total_runs is the number of
\* pipelines that the batches have run.
C21_NoIncrementLost ==
    [][/\ \A a \in Accounts :
            Collects(a) =>
               LET result == pipe[<<"sched", a>>].result
                   counted == IF result.success THEN result.count ELSE 0
               IN /\ scraper_stats'.total_runs = scraper_stats.total_runs + 1
                  /\ scraper_stats'.successful_runs + scraper_stats'.failed_runs =
                        scraper_stats.successful_runs + scraper_stats.failed_runs + 1
                  /\ scraper_stats'.successful_runs =
                        scraper_stats.successful_runs + (IF result.success THEN 1 ELSE 0)
                  /\ scraper_stats'.total_new_offers =
                        scraper_stats.total_new_offers + counted
       /\ (\A a \in Accounts : ~Collects(a)) =>
             /\ scraper_stats'.total_runs = scraper_stats.total_runs
             /\ scraper_stats'.successful_runs = scraper_stats.successful_runs
             /\ scraper_stats'.failed_runs = scraper_stats.failed_runs
             /\ scraper_stats'.total_new_offers = scraper_stats.total_new_offers
       /\ scraper_stats'.total_runs =
             scraper_stats'.successful_runs + scraper_stats'.failed_runs
       /\ loop'.pc = "sleep" => scraper_stats'.total_runs = SumOf(cycles', Accounts)]_vars

\* C21 witness: a batch of two accounts is complete; one pipeline failed,
\* the other one succeeded with one new offer
C21_Witness ==
    /\ loop.pc = "sleep"
    /\ cycles = <<1, 1>>
    /\ scraper_stats.total_runs = 2
    /\ scraper_stats.successful_runs = 1
    /\ scraper_stats.failed_runs = 1
    /\ scraper_stats.total_new_offers = 1

\* C22: accounts_processed holds at most HISTORY_LIMIT entries in every
\* state, and its entries are in the order of their time, the latest last.
C22_HistoryWithinLimit ==
    LET entries == scraper_stats.accounts_processed
    IN /\ Len(entries) <= HISTORY_LIMIT
       /\ \A i \in 1..(Len(entries) - 1) :
             fromisoformat(entries[i].timestamp) <= fromisoformat(entries[i + 1].timestamp)

\* the flag of the configuration is present and set
FlagSet(record) ==
    /\ "scrape_enabled" \in DOMAIN record.configuration
    /\ record.configuration.scrape_enabled = TRUE
NeverUpdated(record) == record.last_updated_at = Null
UpdatedAt(record, t) == record.last_updated_at = <<t>>
\* the record was last updated SCRAPER_INTERVAL minutes before t, or earlier
Stale(record, t) ==
    /\ Len(record.last_updated_at) = 1
    /\ t - record.last_updated_at[1] >= SCRAPER_INTERVAL
\* the last-updated text is not a timestamp
Unreadable(record) == Len(record.last_updated_at) > 1
\* a dispatcher submits a batch to its pool, or finds no account ready
Dispatches(b) ==
    IF b = "sched" THEN loop.pc = "sleep" /\ loop' # loop
    ELSE \E a \in Accounts : pipe[<<b, a>>].pc = "idle" /\ pipe'[<<b, a>>].pc = "session"
\* the pipeline of account a in batch b starts with the record that the
\* selection read
Selected(b, a) ==
    /\ pipe'[<<b, a>>].pc = "session"
    /\ pipe'[<<b, a>>].account = account_dict(store[a])

Steps(s) == InFlight(s) /\ pipe'[s] # pipe[s]

\* C24: a pipeline comes to the fetch only from a session check that reported
\* a valid session, writes listing data only in a fetch step whose request
\* was answered, comes to the contact stage only from a fetch step that has
\* persisted its new-listing set and watermark, and sends only from the
\* contact stage after that.
C24_StepsInOrder ==
    [][\A s \in Slots :
         /\ (pipe'[s].pc = "session" /\ pipe[s].pc # "session") => pipe[s].pc = "idle"
         /\ (pipe'[s].pc = "fetch" /\ pipe[s].pc # "fetch") =>
               /\ pipe[s].pc = "session"
               /\ event'.kind = "check" /\ event'.slot = s /\ event'.ret = "True"
         /\ (Steps(s) /\ event'.kind = "fetch") => pipe[s].pc = "fetch"
         /\ (Steps(s) /\ store'[s[2]].listing_data # store[s[2]].listing_data) =>
               /\ pipe[s].pc = "fetch"
               /\ event'.kind = "fetch" /\ event'.slot = s /\ event'.answer = "ok"
         /\ (pipe'[s].pc = "contact" /\ pipe[s].pc # "contact") =>
               /\ pipe[s].pc = "fetch"
               /\ event'.kind = "fetch" /\ event'.answer = "ok"
               /\ store'[s[2]].listing_data.offers = pipe'[s].new_offers
               /\ IsLatestOf(Watermark(store', s[2]), pipe'[s].new_offers)
         /\ (pipe'[s].pc = "send" /\ pipe[s].pc # "send") => pipe[s].pc = "contact"
         /\ (Steps(s) /\ event'.kind = "send") => pipe[s].pc = "send"]_vars

\* C24 witness: a cycle has gone through all four steps: its sends follow the
\* update that persisted its new-listing set
C24_Witness ==
    /\ IsSend /\ event.attempted # {}
    /\ pipe[event.slot].pc = "done"
    /\ store[event.slot[2]].listing_data # Null
    /\ store[event.slot[2]].listing_data.offers = pipe[event.slot].new_offers
    /\ store[event.slot[2]].session_details # Null

\* the readings of the clock
LastReading == MaxTicks * SCRAPER_INTERVAL
Readings == {k * SCRAPER_INTERVAL : k \in 0..MaxTicks}

\* C25: every scheduled batch comes to its end: the loop is asleep again with
\* currently_running = 0, every pipeline of the batch collected and one
\* result counted for each, whatever the pipelines returned; and a loop whose
\* sleep is over makes its next readiness check.
C25_BatchesTerminate ==
    /\ (loop.pc = "running") ~> (loop.pc = "sleep")
    /\ [](loop.pc = "sleep" =>
            /\ scraper_stats.currently_running = 0
            /\ scraper_stats.total_runs = SumOf(cycles, Accounts)
            /\ \A a \in Accounts : pipe[<<"sched", a>>].pc = "idle")
    /\ \A t \in Readings :
          (loop.pc = "sleep" /\ now = t /\ loop.wake <= t)
             ~> (/\ scraper_stats.last_check # Null
                 /\ fromisoformat(scraper_stats.last_check) >= t)

\* C25 witness: the loop is asleep after a second batch, both pipelines of
\* which have failed
C25_Witness ==
    /\ loop.pc = "sleep" /\ now = LastReading
    /\ scraper_stats.last_check = isoformat(LastReading)
    /\ scraper_stats.currently_running = 0
    /\ scraper_stats.failed_runs >= 2
    /\ \A a \in Accounts : cycles[a] >= 2

\* C26: a fetch step whose request is answered non-2xx or not at all ends
\* the cycle with (success = false, count = 0) and changes nothing in the
\* store: the watermark, the listing set and the last-updated timestamp of
\* the account are as before, and an account that was ready is ready still.
C26_FailedFetchChangesNothing ==
    [][\A s \in Slots :
         (Steps(s) /\ pipe[s].pc = "fetch" /\ event'.answer # "ok") =>
             /\ pipe'[s].pc = "done"
             /\ pipe'[s].result = Result(FALSE, 0)
             /\ store' = store
             /\ s[2] \in get_accounts_ready_to_scrape(store, now)
                   => s[2] \in get_accounts_ready_to_scrape(store', now')]_vars

\* C26 witness: the transport has failed in the fetch of a first cycle, and
\* the account is ready as before
C26_Witness ==
    /\ event.kind = "fetch" /\ event.answer = "raise"
    /\ pipe[event.slot].result = Result(FALSE, 0)
    /\ store[event.slot[2]].listing_data = Null
    /\ store[event.slot[2]].last_updated_at = Null
    /\ event.slot[2] \in get_accounts_ready_to_scrape(store, now)

\* no offer of the set is dated after w
NoneLater(offers, w) ==
    \A o \in offers :
        InFormat(o.date_of_entry_details) => ~Later(o.date_of_entry_details, w)

FoundNew == FetchedOk /\ event.last_latest # Null /\ event.new_offers # {}

\* C28 (as stated): after a fetch step that found a non-empty new-listing
\* set, the persisted listing set is exactly that set.
C28_ListingSetReplacedAlways ==
    FoundNew => store[event.slot[2]].listing_data.offers = event.new_offers

\* C28 (amended): after a fetch step that found a non-empty new-listing set,
\* the persisted listing set is exactly that set when the store update
\* succeeded: no offer persisted before is kept unless it is in the set; when
\* the update failed the persisted listing data is as before and the cycle
\* ends with success = false.
C28_ListingSetReplaced ==
    FoundNew =>
        IF event.save_ok
        THEN /\ store[event.slot[2]].listing_data.offers = event.new_offers
             /\ \A o \in event.listing_before.offers :
                   o \notin event.new_offers
                      => o \notin store[event.slot[2]].listing_data.offers
        ELSE /\ store[event.slot[2]].listing_data = event.listing_before
             /\ pipe[event.slot].result = Result(FALSE, 0)

\* C28 witness: a cycle, started with the watermark that the cycle before it
\* persisted together with offer 1, has persisted offer 2 alone
C28_Witness ==
    /\ FoundNew /\ event.save_ok
    /\ event.last_latest = event.watermark_before
    /\ event.listing_before.offers = {Offer(1)}
    /\ event.new_offers = {Offer(2)}
    /\ store[event.slot[2]].listing_data.offers = {Offer(2)}

\* C29: a cycle that takes its first step when the persisted watermark is
\* the date of the latest offer of the set that it then fetches (a cycle
\* before it has advanced the watermark past every offer of that set) yields
\* an empty new-listing set, leaves the persisted watermark as it is and ends
\* without coming to the contact stage.
C29_RefetchFindsNothing ==
    (/\ FetchedOk
     /\ event.found # Null
     /\ IsLatestOf(event.found, event.offers)) =>
        /\ event.new_offers = {}
        /\ Watermark(store, event.slot[2]) = event.watermark_before
        /\ pipe[event.slot].pc = "done"
        /\ pipe[event.slot].result = Result(TRUE, 0)

\* the offers of a set whose date text is not in the format
Undated(offers) == {o \in offers : ~InFormat(o.date_of_entry_details)}

\* C30: after a fetch step whose request was answered, no offer whose date
\* text is not in the format is in the new-listing set or in the persisted
\* listing set, and the watermark that the step leaves is the one it found
\* or the date of an offer of the fetch whose date text is in the format
\* (none, in a first cycle whose fetch has no such offer).
C30_UndatedOffersIgnored ==
    FetchedOk =>
        LET a == event.slot[2]
            dated == event.offers \ Undated(event.offers)
        IN /\ event.new_offers \cap Undated(event.offers) = {}
           /\ store[a].listing_data.offers \cap Undated(event.offers) = {}
           /\ \/ Watermark(store, a) = event.watermark_before
              \/ IsLatestOf(Watermark(store, a), dated)
              \/ event.last_latest = Null /\ dated = {} /\ Watermark(store, a) = Null
           /\ (event.last_latest = Null /\ dated # {}) =>
                 IsLatestOf(Watermark(store, a), dated)

\* C30 witness: a first cycle has fetched offer 1 and the offer without
\* readable date, and the watermark is the date of offer 1
C30_Witness ==
    /\ FetchedOk /\ event.last_latest = Null
    /\ event.offers = {Offer(1), Offer(3)}
    /\ Undated(event.offers) = {Offer(3)}
    /\ Watermark(store, event.slot[2]) = DateOf(1)

\* the persisted session of account a differs after the step
SessionChanges(a) == store'[a].session_details # store[a].session_details
\* the step is a session check of account a
ChecksSession(a) == event'.kind = "check" /\ event'.slot[2] = a
\* a refresh or a re-login of the check of the step was answered with tokens
Renewed ==
    \/ Called(event'.calls, <<"refresh", "ok">>)
    \/ Called(event'.calls, <<"login", "ok">>)

\* C31: the persisted session of an account, tokens and creation timestamp,
\* changes only in a session check of the account in which a refresh or a
\* re-login succeeded; a check whose refresh failed and whose re-login failed
\* or was answered with a two-factor challenge leaves it as it was.
C31_SessionChangesOnlyOnRenewal ==
    [][\A a \in Accounts :
         SessionChanges(a) => ChecksSession(a) /\ Renewed]_vars

\* the token set of a client or of a session dictionary
TokensOf(x) == <<x.userId, x.accessToken, x.refreshToken, x.devRefNo>>
\* The pipeline of slot s is before its second session check, and its first
\* one renewed the session: the client holds other tokens than the account
\* dictionary read at the start of the cycle.
RenewedBeforeFetch(s) ==
    /\ pipe[s].pc = "contact"
    /\ ~message_is_empty(pipe[s].account.message)
    /\ TokensOf(pipe[s].client) # TokensOf(pipe[s].account.session_details)

\* C32: when the session check before the fetch renewed the session, the
\* session check before auto-contact goes on from the new session: the
\* pipeline sends with the tokens of the persisted session of the account,
\* and the persisted session is not replaced by older tokens.
C32_ContactUsesPersistedSession ==
    [][\A s \in Slots :
         (RenewedBeforeFetch(s) /\ Steps(s)) =>
             LET a == s[2]
             IN /\ pipe'[s].pc = "send" =>
                     TokensOf(pipe'[s].client) = TokensOf(store'[a].session_details)
                /\ store'[a].session_details.accessToken
                       >= store[a].session_details.accessToken]_vars

\* C33: in the persisted listing_data of every account, every new-listing
\* record has an entry date in the format that is not later than the persisted
\* watermark, and when there are records the watermark is the date of the
\* latest of them.
C33_RecordsWithinWatermark ==
    \A a \in Accounts :
        store[a].listing_data # Null =>
            LET records == store[a].listing_data.offers
                last_latest == store[a].listing_data.last_latest
            IN /\ \A o \in records :
                     /\ InFormat(o.date_of_entry_details)
                     /\ last_latest # Null
                     /\ ~Later(o.date_of_entry_details, last_latest)
               /\ records # {} => IsLatestOf(last_latest, records)

\* C33 witness: a cycle has persisted two records with different dates, and
\* the watermark is the later date.
C33_Witness ==
    /\ FetchedOk /\ event.save_ok
    /\ event.new_offers = {Offer(1), Offer(2)}
    /\ store[event.slot[2]].listing_data =
          [last_latest |-> DateOf(2), offers |-> {Offer(1), Offer(2)}]

====
